---- MODULE Spec2Model ----
(***************************************************************************)
(* Model of the secrets scanner of src/main.py: the ignore decision        *)
(* (should_ignore), the file enumerator (get_files_to_scan), the per-file  *)
(* line scanner with its retry (find_secrets_in_file) and the batching     *)
(* coordinator of main.                                                    *)
(*                                                                         *)
(* Three specifications share the variables:                               *)
(*   Spec      main's batching loop driving find_secrets_in_file tasks     *)
(*             on one asyncio event loop;                                  *)
(*   SpecScan  one direct call of find_secrets_in_file, as                 *)
(*             test_find_secrets_in_file makes it;                         *)
(*   SpecEnum  get_files_to_scan over a directory tree and a rule list.    *)
(***************************************************************************)
EXTENDS Integers, Sequences, FiniteSets, TLC

(* ------------------------------ bounds -------------------------------- *)

\* Largest number of candidate files of a run of main.
MaxFiles == 4

\* The chunk size of main (the literal 100 of main.py:127-129), scaled down
\* so that runs of several chunks fit in MaxFiles.
BatchSize == 2

\* Largest number of lines of a file.
MaxLines == 2

\* Number of scan rules (compiled regular expressions) in the rule list.
NumRules == 2

\* Largest number of failures of open and read operations the environment
\* injects in one run.
MaxFaults == 2

\* Largest number of ignore rules in the rule list of an enumeration.
MaxIgnoreRules == 2

(* ------------------------------ inputs -------------------------------- *)

\* The rule list `patterns`, in list order.
Rules == 1..NumRules

\* A line of text is represented by the set of rules whose regular
\* expression finds a match in it; the regular expressions themselves are
\* outside the model.
Lines == SUBSET Rules

RECURSIVE SeqsUpTo(_, _)
SeqsUpTo(S, k) ==
    IF k = 0 THEN {<<>>}
    ELSE LET shorter == SeqsUpTo(S, k - 1)
         IN  shorter \cup {Append(s, x) : s \in {t \in shorter : Len(t) = k - 1}, x \in S}

\* File contents: every sequence of at most MaxLines lines.
Contents == SeqsUpTo(Lines, MaxLines)

\* The exceptions an I/O operation of scan_file can raise, by the except
\* clause of find_secrets_in_file that classifies them.
OpenErrors == {"PermissionError", "OSError"}
ReadErrors == {"UnicodeDecodeError", "PermissionError", "OSError"}
CloseErrors == {"PermissionError", "OSError"}

(* ----------------------------- variables ------------------------------ *)

VARIABLES
    n,            \* len(tasks): number of candidate files
    content,      \* content[f]: the lines of file f
    pc,           \* pc[f]: position of the find_secrets_in_file call for f
    attempt,      \* attempt[f]: number of calls of scan_file made for f so far
    line_num,     \* line_num[f]: scan_file's line counter of the current attempt
    results,      \* results[f]: the list `results` of the call for f
    retry_at,     \* retry_at[f]: Len(results[f]) when the retry started (history)
    failure,      \* failure[f]: <<exception of attempt 1, exception of attempt 2>> (history)
    faults,       \* number of open and read failures injected so far
    cancel_requested, \* cancel_requested[f]: Task.cancel() was called on the task
                  \* of f and its CancelledError is not thrown into it yet
    pending,      \* pending[f]: the exception with which the call for f is
                  \* leaving the `async with` block ("none" outside that exit
                  \* and on a normal exit)
    mainpc,       \* position of main
    i,            \* main's loop variable
    all_results,  \* main's all_results up to line 130: the list of the lists
                  \* the gathered tasks returned
    all_results_flat, \* main's all_results from line 133 on: the flat list of
                  \* records the name is rebound to
    entries,      \* SpecEnum: the entries root_dir.rglob("*") yields
    ignored_patterns, \* SpecEnum: the rule list
    files_to_scan \* SpecEnum: the result of get_files_to_scan

scanvars == <<n, content, pc, attempt, line_num, results, retry_at, failure, faults,
              cancel_requested, pending>>
mainvars == <<mainpc, i, all_results, all_results_flat>>
enumvars == <<entries, ignored_patterns, files_to_scan>>
vars == <<n, content, pc, attempt, line_num, results, retry_at, failure, faults,
          cancel_requested, pending, mainpc, i, all_results,
          all_results_flat,
          entries, ignored_patterns, files_to_scan>>

Files == 1..n

(* ------------------- find_secrets_in_file (line scanner) --------------- *)

\* pattern.search(line): the match of rule r in the line, if any.
Search(r, line) == r \in line

\* The inner `for pattern in patterns` loop of scan_file on one line: one
\* record per rule that matches, in rule order, all with the current
\* line_num.  Called with k = NumRules.
RECURSIVE LineRecords(_, _, _, _)
LineRecordsFirstMatch(f, ln, line, k) ==
    LET m == {r \in 1..k : Search(r, line)}
    IN  IF m = {} THEN <<>>
        ELSE <<[secret |-> CHOOSE r \in m : \A q \in m : r <= q, file |-> f, line |-> ln]>>
LineRecords(f, ln, line, k) ==
    IF k = 0 THEN <<>>
    ELSE LET before == LineRecords(f, ln, line, k - 1)
         IN  IF Search(k, line)
             THEN Append(before, [secret |-> k, file |-> f, line |-> ln])
             ELSE before

\* results.append(...) for every record of the line just read.
AppendPrepended(res, recs) == recs \o res
AppendRecords(res, recs) == res \o recs

\* A complete run of scan_file over all lines `c` of file f on a fresh
\* list: what a scan that succeeds immediately returns.
RECURSIVE ScanAll(_, _, _)
ScanAll(f, c, k) ==
    IF k = 0 THEN <<>>
    ELSE AppendRecords(ScanAll(f, c, k - 1), LineRecords(f, k, c[k], NumRules))

\* The positions of a call of find_secrets_in_file:
\*   "created"   the coroutine exists, no task runs it yet
\*   "open"      awaits aiofiles.open (line 52)
\*   "read"      awaits the next line of `async for line in file` (line 54)
\*   "close"     awaits file.close() (line 65)
\*   "exit"      awaits the close made on leaving the `async with` block
\*   "sleep"     in time.sleep(5) (line 74)
\*   "returned", "raised", "cancelled"   the call is over
InFlight(f) == pc[f] \in {"open", "read", "close", "exit", "sleep"}

\* time.sleep(5) blocks the thread of the event loop: while a call is in
\* its backoff, no coroutine (main included) takes a step.
LoopFree == \A f \in Files : pc[f] # "sleep"

\* The except clauses of find_secrets_in_file (lines 67-75) applied to an
\* exception e raised by scan_file in the first attempt: the position the
\* call moves to.
AfterFirstFailureRetryAll(e) == "sleep"
AfterFirstFailure(e) ==
    IF e \in {"UnicodeDecodeError", "PermissionError"}
    THEN "returned"     \* except (UnicodeDecodeError, PermissionError): pass; return results
    ELSE "sleep"        \* except OSError: time.sleep(5), then scan_file() again

\* An exception of the retry is raised inside the except block, where no
\* handler applies: it leaves find_secrets_in_file.  asyncio.gather cancels
\* no other awaitable when one raises.
PcAfterRaiseCancelSiblings(f) ==
    [g \in Files |-> IF g = f THEN "raised"
                     ELSE IF InFlight(g) THEN "cancelled" ELSE pc[g]]
PcAfterRaise(f) == [pc EXCEPT ![f] = "raised"]

\* The environment makes an I/O operation fail.
Inject ==
    /\ faults < MaxFaults
    /\ faults' = faults + 1

\* Exception e leaves scan_file in the call for f (lines 67-75).
Fail(f, e) ==
    IF attempt[f] = 1
    THEN /\ pc' = [pc EXCEPT ![f] = AfterFirstFailure(e)]
         /\ failure' = [failure EXCEPT ![f] = <<e, "none">>]
    ELSE /\ pc' = PcAfterRaise(f)
         /\ failure' = [failure EXCEPT ![f] = <<failure[f][1], e>>]

\* aiofiles.open succeeds (line 52); line_num = 0 (line 53).
OpenOk(f) ==
    /\ pc[f] = "open"
    /\ ~cancel_requested[f]
    /\ LoopFree
    /\ pc' = [pc EXCEPT ![f] = "read"]
    /\ line_num' = [line_num EXCEPT ![f] = 0]
    /\ UNCHANGED <<n, content, attempt, results, retry_at, failure, faults,
                   cancel_requested, pending>>
    /\ UNCHANGED mainvars /\ UNCHANGED enumvars

\* aiofiles.open raises: no file is open, the exception leaves scan_file.
OpenFail(f) ==
    /\ pc[f] = "open"
    /\ ~cancel_requested[f]
    /\ LoopFree
    /\ Inject
    /\ \E e \in OpenErrors : Fail(f, e)
    /\ UNCHANGED <<n, content, attempt, line_num, results, retry_at,
                   cancel_requested, pending>>
    /\ UNCHANGED mainvars /\ UNCHANGED enumvars

\* `async for line in file` yields the next line; the rules are applied to
\* it before the next suspension (lines 54-64).
ReadLine(f) ==
    /\ pc[f] = "read"
    /\ ~cancel_requested[f]
    /\ LoopFree
    /\ line_num[f] < Len(content[f])
    /\ line_num' = [line_num EXCEPT ![f] = line_num[f] + 1]
    /\ results' = [results EXCEPT ![f] =
           AppendRecords(results[f],
               LineRecords(f, line_num[f] + 1, content[f][line_num[f] + 1], NumRules))]
    /\ UNCHANGED <<n, content, pc, attempt, retry_at, failure, faults,
                   cancel_requested, pending>>
    /\ UNCHANGED mainvars /\ UNCHANGED enumvars

\* Reading the next line (or finding the end of the file) raises: the
\* exception starts leaving the `async with` block, which closes the file.
ReadFail(f) ==
    /\ pc[f] = "read"
    /\ ~cancel_requested[f]
    /\ LoopFree
    /\ Inject
    /\ \E e \in ReadErrors : pending' = [pending EXCEPT ![f] = e]
    /\ pc' = [pc EXCEPT ![f] = "exit"]
    /\ UNCHANGED <<n, content, attempt, line_num, results, retry_at, failure,
                   cancel_requested>>
    /\ UNCHANGED mainvars /\ UNCHANGED enumvars

\* The iteration ends: file.close() is called and awaited (line 65).
ReadEnd(f) ==
    /\ pc[f] = "read"
    /\ ~cancel_requested[f]
    /\ LoopFree
    /\ line_num[f] = Len(content[f])
    /\ pc' = [pc EXCEPT ![f] = "close"]
    /\ UNCHANGED <<n, content, attempt, line_num, results, retry_at, failure, faults,
                   cancel_requested, pending>>
    /\ UNCHANGED mainvars /\ UNCHANGED enumvars

\* file.close() of line 65 succeeds: the `async with` block is left
\* normally, which closes the file once more.
CloseOk(f) ==
    /\ pc[f] = "close"
    /\ ~cancel_requested[f]
    /\ LoopFree
    /\ pc' = [pc EXCEPT ![f] = "exit"]
    /\ UNCHANGED <<n, content, attempt, line_num, results, retry_at, failure, faults,
                   cancel_requested, pending>>
    /\ UNCHANGED mainvars /\ UNCHANGED enumvars

\* file.close() of line 65 raises: the exception starts leaving the block.
CloseFail(f) ==
    /\ pc[f] = "close"
    /\ ~cancel_requested[f]
    /\ LoopFree
    /\ Inject
    /\ \E e \in CloseErrors : pending' = [pending EXCEPT ![f] = e]
    /\ pc' = [pc EXCEPT ![f] = "exit"]
    /\ UNCHANGED <<n, content, attempt, line_num, results, retry_at, failure,
                   cancel_requested>>
    /\ UNCHANGED mainvars /\ UNCHANGED enumvars

\* The close made on leaving the `async with` block succeeds.  On a normal
\* exit scan_file returns and find_secrets_in_file returns results (lines
\* 66, 76); a CancelledError meets no handler and ends the task; any other
\* exception meets the except clauses of lines 67-75.
ExitOk(f) ==
    /\ pc[f] = "exit"
    /\ ~cancel_requested[f]
    /\ LoopFree
    /\ IF pending[f] = "none"
       THEN pc' = [pc EXCEPT ![f] = "returned"] /\ UNCHANGED failure
       ELSE IF pending[f] = "CancelledError"
       THEN pc' = [pc EXCEPT ![f] = "cancelled"] /\ UNCHANGED failure
       ELSE Fail(f, pending[f])
    /\ pending' = [pending EXCEPT ![f] = "none"]
    /\ UNCHANGED <<n, content, attempt, line_num, results, retry_at, faults,
                   cancel_requested>>
    /\ UNCHANGED mainvars /\ UNCHANGED enumvars

\* The close made on leaving the `async with` block raises: its exception
\* replaces the one the block was left with (a CancelledError included)
\* and meets the except clauses of lines 67-75.  A failing close that
\* replaces a CancelledError is not counted in the budget of failures: a
\* task is cancelled at most once.
ExitFail(f) ==
    /\ pc[f] = "exit"
    /\ ~cancel_requested[f]
    /\ LoopFree
    /\ IF pending[f] = "CancelledError" THEN UNCHANGED faults ELSE Inject
    /\ \E e \in CloseErrors : Fail(f, e)
    /\ pending' = [pending EXCEPT ![f] = "none"]
    /\ UNCHANGED <<n, content, attempt, line_num, results, retry_at, cancel_requested>>
    /\ UNCHANGED mainvars /\ UNCHANGED enumvars

\* time.sleep(5) returns and scan_file() is called again, on the same
\* results list (line 75).
Retry(f) ==
    /\ pc[f] = "sleep"
    /\ pc' = [pc EXCEPT ![f] = "open"]
    /\ attempt' = [attempt EXCEPT ![f] = attempt[f] + 1]
    /\ retry_at' = [retry_at EXCEPT ![f] = Len(results[f])]
    /\ UNCHANGED <<n, content, line_num, results, failure, faults,
                   cancel_requested, pending>>
    /\ UNCHANGED mainvars /\ UNCHANGED enumvars

\* The event loop resumes a task whose cancellation was requested: a
\* CancelledError is thrown into the coroutine at the await it is
\* suspended in.
\* At aiofiles.open (line 52) no file is open and no handler of
\* find_secrets_in_file catches CancelledError: the task ends cancelled.
CancelAtOpen(f) ==
    /\ pc[f] = "open"
    /\ cancel_requested[f]
    /\ LoopFree
    /\ pc' = [pc EXCEPT ![f] = "cancelled"]
    /\ cancel_requested' = [cancel_requested EXCEPT ![f] = FALSE]
    /\ UNCHANGED <<n, content, attempt, line_num, results, retry_at, failure, faults,
                   pending>>
    /\ UNCHANGED mainvars /\ UNCHANGED enumvars

\* Inside the `async with` block (lines 54-65) the CancelledError starts
\* leaving the block, which closes the file and awaits that.
CancelInFile(f) ==
    /\ pc[f] \in {"read", "close"}
    /\ cancel_requested[f]
    /\ LoopFree
    /\ pc' = [pc EXCEPT ![f] = "exit"]
    /\ pending' = [pending EXCEPT ![f] = "CancelledError"]
    /\ cancel_requested' = [cancel_requested EXCEPT ![f] = FALSE]
    /\ UNCHANGED <<n, content, attempt, line_num, results, retry_at, failure, faults>>
    /\ UNCHANGED mainvars /\ UNCHANGED enumvars

\* In the close made on leaving the block the CancelledError leaves that
\* close and find_secrets_in_file: the task ends cancelled.
CancelAtExit(f) ==
    /\ pc[f] = "exit"
    /\ cancel_requested[f]
    /\ LoopFree
    /\ pc' = [pc EXCEPT ![f] = "cancelled"]
    /\ pending' = [pending EXCEPT ![f] = "none"]
    /\ cancel_requested' = [cancel_requested EXCEPT ![f] = FALSE]
    /\ UNCHANGED <<n, content, attempt, line_num, results, retry_at, failure, faults>>
    /\ UNCHANGED mainvars /\ UNCHANGED enumvars

(* ------------------------- main (scan coordinator) -------------------- *)

\* chunks = int(tasks_len / 100)
Chunks == n \div BatchSize

\* task_chunk of iteration k (k from 0, as range(chunks) gives it), as the
\* set of 1-based task indices: tasks[k*100:] in the last iteration,
\* tasks[k*100:(k+1)*100] in the others.
TaskChunk(k) ==
    IF k = Chunks - 1
    THEN (k * BatchSize + 1)..n
    ELSE (k * BatchSize + 1)..((k + 1) * BatchSize)

\* The lists returned by the tasks lo..hi, in task order: the value of
\* `await asyncio.gather(*task_chunk)`.
RECURSIVE Gathered(_, _)
Gathered(lo, hi) ==
    IF hi < lo THEN <<>> ELSE Append(Gathered(lo, hi - 1), results[hi])

\* [result for results in all_results for result in results]
RECURSIVE Flatten(_)
Flatten(lists) ==
    IF lists = <<>> THEN <<>> ELSE Head(lists) \o Flatten(Tail(lists))

ChunkLo(k) == k * BatchSize + 1
ChunkHi(k) == IF k = Chunks - 1 THEN n ELSE (k + 1) * BatchSize

\* asyncio.gather(*task_chunk) is called: every coroutine of the chunk
\* becomes a task of the event loop and starts its first attempt.
StartChunk ==
    /\ LoopFree
    /\ mainpc = "loop"
    /\ i < Chunks
    /\ mainpc' = "gather"
    /\ pc' = [f \in Files |-> IF f \in TaskChunk(i) THEN "open" ELSE pc[f]]
    /\ attempt' = [f \in Files |-> IF f \in TaskChunk(i) THEN attempt[f] + 1 ELSE attempt[f]]
    /\ UNCHANGED <<n, content, line_num, results, retry_at, failure, faults,
                   cancel_requested, pending, i, all_results,
                   all_results_flat>>
    /\ UNCHANGED enumvars

\* The condition on which the awaited gather delivers its list of results.
ChunkSomeReturned(k) == \E f \in TaskChunk(k) : pc[f] = "returned"
ChunkAllTasksReturned(k) == \A f \in Files : pc[f] = "returned"
ChunkReturned(k) == \A f \in TaskChunk(k) : pc[f] = "returned"

\* Every task of the chunk has returned: all_results += <the lists>, and
\* the loop goes to its next iteration (line 130).
GatherReturn ==
    /\ LoopFree
    /\ mainpc = "gather"
    /\ ChunkReturned(i)
    /\ all_results' = all_results \o Gathered(ChunkLo(i), ChunkHi(i))
    /\ UNCHANGED all_results_flat
    /\ i' = i + 1
    /\ mainpc' = "loop"
    /\ UNCHANGED scanvars /\ UNCHANGED enumvars

\* A task of the chunk raised: gather raises in main, which has no handler,
\* so main's task ends with the exception.  The other tasks are left as
\* they are: the event loop keeps resuming those whose I/O completes.
GatherRaise ==
    /\ LoopFree
    /\ mainpc = "gather"
    /\ \E f \in TaskChunk(i) : pc[f] = "raised"
    /\ mainpc' = "aborted"
    /\ UNCHANGED scanvars /\ UNCHANGED <<i, all_results, all_results_flat>>
    /\ UNCHANGED enumvars

\* asyncio.run(main()) (line 147), after main's task ended with the
\* exception, closes the event loop.  It first calls Task.cancel() on every
\* task still pending: that only requests the cancellation, each task
\* meets its CancelledError when the event loop resumes it.
RunCancel ==
    /\ LoopFree
    /\ mainpc = "aborted"
    /\ mainpc' = "closing"
    /\ cancel_requested' = [f \in Files |-> InFlight(f)]
    /\ UNCHANGED <<n, content, pc, attempt, line_num, results, retry_at, failure, faults,
                   pending, i, all_results, all_results_flat>>
    /\ UNCHANGED enumvars

\* Every task asyncio.run asked to cancel has ended: the event loop is
\* closed and asyncio.run raises main's exception.
RunClose ==
    /\ LoopFree
    /\ mainpc = "closing"
    /\ \A f \in Files : ~InFlight(f)
    /\ mainpc' = "closed"
    /\ UNCHANGED scanvars /\ UNCHANGED <<i, all_results, all_results_flat>>
    /\ UNCHANGED enumvars

\* The loop is over: all_results is flattened (line 133) and handed to the
\* output functions.
MainReturn ==
    /\ LoopFree
    /\ mainpc = "loop"
    /\ i = Chunks
    /\ all_results_flat' = Flatten(all_results)
    /\ mainpc' = "returned"
    /\ UNCHANGED scanvars /\ UNCHANGED <<i, all_results>>
    /\ UNCHANGED enumvars

(* ------------------- should_ignore, get_files_to_scan ------------------ *)

\* A string is a sequence of one-character strings.  A path is the
\* sequence of its components (pathlib's parts), the root "/" being the
\* first component of an absolute path.  The alphabet of the inputs has
\* no "[", so `*` and `?` are the only wildcards of fnmatch met here.
Slash == <<"/">>

\* "/" in pattern
HasSlash(pat) == \E k \in DOMAIN pat : pat[k] = "/"

\* fnmatch.fnmatchcase(s, p) from position a of s and b of p.
RECURSIVE GlobFrom(_, _, _, _)
GlobFrom(s, p, a, b) ==
    IF b > Len(p) THEN a > Len(s)
    ELSE IF p[b] = "*"
         THEN GlobFrom(s, p, a, b + 1) \/ (a <= Len(s) /\ GlobFrom(s, p, a + 1, b))
         ELSE /\ a <= Len(s)
              /\ (p[b] = "?" \/ p[b] = s[a])
              /\ GlobFrom(s, p, a + 1, b + 1)

\* fnmatch.fnmatch(name, pattern) on a POSIX system.
FnMatch(name, pat) == GlobFrom(name, pat, 1, 1)

\* The components of the text t[k..], cut at "/": empty components and
\* "." components are dropped, as pathlib drops them.
RECURSIVE SplitFrom(_, _, _)
SplitFrom(t, k, cur) ==
    LET keep == IF cur = <<>> \/ cur = <<".">> THEN <<>> ELSE <<cur>>
    IN  IF k > Len(t) THEN keep
        ELSE IF t[k] = "/" THEN keep \o SplitFrom(t, k + 1, <<>>)
        ELSE SplitFrom(t, k + 1, Append(cur, t[k]))

\* The root of a text that starts with exactly two slashes.
DoubleSlash == <<"/", "/">>

\* The root of the text, or <<>> for a relative one: "//" for exactly two
\* leading slashes, "/" for one or for three and more (POSIX flavour).
Root(t) ==
    IF t = <<>> \/ t[1] # "/" THEN <<>>
    ELSE IF Len(t) >= 2 /\ t[2] = "/" /\ (Len(t) = 2 \/ t[3] # "/") THEN DoubleSlash
    ELSE Slash

IsRoot(part) == part \in {Slash, DoubleSlash}

\* Path(text).parts
Parts(t) ==
    IF Root(t) # <<>> THEN <<Root(t)>> \o SplitFrom(t, 1, <<>>)
    ELSE SplitFrom(t, 1, <<>>)

\* path.name
Name(path) ==
    IF Len(path) = 0 \/ IsRoot(path[Len(path)]) THEN <<>> ELSE path[Len(path)]

\* path.match(pattern) (pathlib of Python 3.11): an absolute pattern must
\* match the whole path, a relative one its last components.  (A pattern
\* without any component, such as "./", makes path.match raise ValueError;
\* the rule lists of the inputs hold none.)
PathMatch(path, pat) ==
    LET pp == Parts(pat)
        off == Len(path) - Len(pp)
    IN  /\ Len(pp) <= Len(path)
        /\ (pp # <<>> /\ IsRoot(pp[1])) => Len(pp) = Len(path)
        /\ \A k \in 1..Len(pp) : FnMatch(path[off + k], pp[k])

\* path.is_relative_to(pattern): the parts of the pattern are a prefix of
\* the parts of the path, compared literally; a pattern without any
\* component is a prefix of the relative paths only.
IsRelativeTo(path, pat) ==
    LET pp == Parts(pat)
    IN  IF Len(pp) = 0
        THEN ~(Len(path) >= 1 /\ IsRoot(path[1]))
        ELSE /\ Len(pp) <= Len(path)
             /\ \A k \in 1..Len(pp) : path[k] = pp[k]

\* pattern in path.name
IsSubstring(q, name) ==
    \E a \in 0..(Len(name) - Len(q)) : \A k \in 1..Len(q) : name[a + k] = q[k]

AnySubstringNever(path, patterns) == FALSE

\* any(pattern for pattern in ignored_patterns if pattern in path.name):
\* some non-empty rule of the whole list occurs in the name.
AnySubstring(path, patterns) ==
    \E k \in DOMAIN patterns :
        patterns[k] # <<>> /\ IsSubstring(patterns[k], Name(path))

\* The loop of should_ignore from rule k on.
RECURSIVE ShouldIgnoreFrom(_, _, _)
ShouldIgnoreFromFirstOnly(path, patterns, k) ==
    /\ k <= Len(patterns)
    /\ IF HasSlash(patterns[k])
       THEN PathMatch(path, patterns[k]) \/ IsRelativeTo(path, patterns[k])
       ELSE FnMatch(Name(path), patterns[k]) \/ AnySubstring(path, patterns)
ShouldIgnoreFrom(path, patterns, k) ==
    IF k > Len(patterns) THEN FALSE
    ELSE IF HasSlash(patterns[k])
         THEN IF PathMatch(path, patterns[k]) \/ IsRelativeTo(path, patterns[k])
              THEN TRUE
              ELSE ShouldIgnoreFrom(path, patterns, k + 1)
         ELSE IF FnMatch(Name(path), patterns[k]) THEN TRUE
         ELSE IF AnySubstring(path, patterns) THEN TRUE
         ELSE ShouldIgnoreFrom(path, patterns, k + 1)

should_ignore(path, patterns) == ShouldIgnoreFrom(path, patterns, 1)

\* get_files_to_scan: the entries rglob("*") yields for which
\* Path.is_file() is true and which should_ignore does not exclude.  The
\* order of the list is the order of the directory walk, which the
\* platform decides, so the result is kept as a set.
get_files_to_scan(ents, patterns) ==
    {e.path : e \in {x \in ents : x.is_file /\ ~should_ignore(x.path, patterns)}}

(* ------------------------ enumeration inputs -------------------------- *)

\* root_dir
RootDir == <<Slash, <<"r">>>>

\* The regular files a tree under root_dir may hold (relative to it):
\* t.py, i.log, sf/h.py, sf/d/k.py.
FilePool ==
    { <<<<"t", ".", "p", "y">>>>,
      <<<<"i", ".", "l", "o", "g">>>>,
      <<<<"s", "f">>, <<"h", ".", "p", "y">>>>,
      <<<<"s", "f">>, <<"d">>, <<"k", ".", "p", "y">>>> }

\* The ignore rules a rule list may hold:
\* "*.log", "sf/", "sf", "/r/sf", "log", "sf/*", "t.pyc", "//r/sf".
RulePool ==
    { <<"*", ".", "l", "o", "g">>,
      <<"s", "f", "/">>,
      <<"s", "f">>,
      <<"/", "r", "/", "s", "f">>,
      <<"l", "o", "g">>,
      <<"s", "f", "/", "*">>,
      <<"t", ".", "p", "y", "c">>,
      <<"/", "/", "r", "/", "s", "f">> }

\* The symbolic links a tree under root_dir may hold, each with the path
\* it points to (both relative to root_dir): l.py -> t.py.
LinkPool ==
    { [rel |-> <<<<"l", ".", "p", "y">>>>, target |-> <<<<"t", ".", "p", "y">>>>] }

\* The special files a tree under root_dir may hold: the FIFO p.py.
SpecialPool ==
    { <<<<"p", ".", "p", "y">>>> }

\* What root_dir.rglob("*") yields for a tree holding the regular files
\* `fs`, the symbolic links `ls` and the special files `ss`: each of them,
\* and each directory above a file and below root_dir.  `kind` is what the
\* entry itself is; `is_file` is what Path.is_file() answers for it, which
\* follows a symbolic link: true for a regular file and for a link whose
\* target is a regular file of the tree, false for a directory, a special
\* file and a link whose target does not exist.
TreeEntries(fs, ls, ss) ==
    {[path |-> RootDir \o rel, kind |-> "file", is_file |-> TRUE] : rel \in fs}
    \cup UNION {{[path |-> RootDir \o SubSeq(rel, 1, k), kind |-> "dir", is_file |-> FALSE] :
                    k \in 1..(Len(rel) - 1)} : rel \in fs}
    \cup {[path |-> RootDir \o l.rel, kind |-> "symlink", is_file |-> l.target \in fs] :
             l \in ls}
    \cup {[path |-> RootDir \o rel, kind |-> "special", is_file |-> FALSE] : rel \in ss}

(* --------------------------- specifications --------------------------- *)

\* File contents of the runs of main: at most one line per file, a line
\* that no rule matches or one that every rule matches.
MainContents ==
    {c \in Contents : Len(c) <= 1 /\ \A k \in DOMAIN c : c[k] \in {{}, Rules}}

NoEnum ==
    /\ entries = {}
    /\ ignored_patterns = <<>>
    /\ files_to_scan = {}

\* main after line 125: the coroutines are created, none has run.
Init ==
    /\ n \in 0..MaxFiles
    /\ \E c \in MainContents : content = [f \in Files |-> c]
    /\ pc = [f \in Files |-> "created"]
    /\ attempt = [f \in Files |-> 0]
    /\ line_num = [f \in Files |-> 0]
    /\ results = [f \in Files |-> <<>>]
    /\ retry_at = [f \in Files |-> 0]
    /\ failure = [f \in Files |-> <<"none", "none">>]
    /\ faults = 0
    /\ cancel_requested = [f \in Files |-> FALSE]
    /\ pending = [f \in Files |-> "none"]
    /\ mainpc = "loop"
    /\ i = 0
    /\ all_results = <<>>
    /\ all_results_flat = <<>>
    /\ NoEnum

Next ==
    \/ StartChunk
    \/ GatherReturn
    \/ GatherRaise
    \/ RunCancel
    \/ RunClose
    \/ MainReturn
    \/ \E f \in Files : OpenOk(f)
    \/ \E f \in Files : OpenFail(f)
    \/ \E f \in Files : ReadLine(f)
    \/ \E f \in Files : ReadFail(f)
    \/ \E f \in Files : ReadEnd(f)
    \/ \E f \in Files : CloseOk(f)
    \/ \E f \in Files : CloseFail(f)
    \/ \E f \in Files : ExitOk(f)
    \/ \E f \in Files : ExitFail(f)
    \/ \E f \in Files : Retry(f)
    \/ \E f \in Files : CancelAtOpen(f)
    \/ \E f \in Files : CancelInFile(f)
    \/ \E f \in Files : CancelAtExit(f)

Spec == Init /\ [][Next]_vars

\* The event loop runs every callback that is ready, every I/O request
\* completes (with a result or an exception) and time.sleep returns: a run
\* that can take a step takes one.
\* Whether a run ends does not depend on which rules match a line: the
\* runs checked for it read files whose lines match no rule.
InitLive ==
    /\ Init
    /\ \A f \in Files : \A k \in DOMAIN content[f] : content[f][k] = {}

SpecLive == InitLive /\ [][Next]_vars /\ WF_vars(Next)

\* One call of find_secrets_in_file awaited directly by its caller.
InitScan ==
    /\ n = 1
    /\ content \in [Files -> Contents]
    /\ pc = [f \in Files |-> "open"]
    /\ attempt = [f \in Files |-> 1]
    /\ line_num = [f \in Files |-> 0]
    /\ results = [f \in Files |-> <<>>]
    /\ retry_at = [f \in Files |-> 0]
    /\ failure = [f \in Files |-> <<"none", "none">>]
    /\ faults = 0
    /\ cancel_requested = [f \in Files |-> FALSE]
    /\ pending = [f \in Files |-> "none"]
    /\ mainpc = "direct"
    /\ i = 0
    /\ all_results = <<>>
    /\ all_results_flat = <<>>
    /\ NoEnum

NextScan ==
    \/ \E f \in Files : OpenOk(f)
    \/ \E f \in Files : OpenFail(f)
    \/ \E f \in Files : ReadLine(f)
    \/ \E f \in Files : ReadFail(f)
    \/ \E f \in Files : ReadEnd(f)
    \/ \E f \in Files : CloseOk(f)
    \/ \E f \in Files : CloseFail(f)
    \/ \E f \in Files : ExitOk(f)
    \/ \E f \in Files : ExitFail(f)
    \/ \E f \in Files : Retry(f)

SpecScan == InitScan /\ [][NextScan]_vars

\* get_files_to_scan(root_dir, ignored_patterns) is about to be called on
\* a tree and a rule list.  The tree holds any of the regular files of the
\* pool and, besides them, none or all of the links and special files.
InitEnum ==
    /\ \E fs \in SUBSET FilePool :
           \/ entries = TreeEntries(fs, {}, {})
           \/ entries = TreeEntries(fs, LinkPool, SpecialPool)
    /\ ignored_patterns \in SeqsUpTo(RulePool, MaxIgnoreRules)
    /\ files_to_scan = {}
    /\ n = 0
    /\ content = <<>>
    /\ pc = <<>>
    /\ attempt = <<>>
    /\ line_num = <<>>
    /\ results = <<>>
    /\ retry_at = <<>>
    /\ failure = <<>>
    /\ faults = 0
    /\ cancel_requested = <<>>
    /\ pending = <<>>
    /\ mainpc = "enumerate"
    /\ i = 0
    /\ all_results = <<>>
    /\ all_results_flat = <<>>

\* files_to_scan = get_files_to_scan(root_dir, ignored_patterns)
Enumerate ==
    /\ mainpc = "enumerate"
    /\ files_to_scan' = get_files_to_scan(entries, ignored_patterns)
    /\ mainpc' = "enumerated"
    /\ UNCHANGED scanvars
    /\ UNCHANGED <<i, all_results, all_results_flat, entries, ignored_patterns>>

NextEnum == Enumerate

SpecEnum == InitEnum /\ [][NextEnum]_vars

(* ------------------------------- claims ------------------------------- *)

Finished(f) == pc[f] \in {"returned", "raised", "cancelled"}

\* The records a complete scan of file f yields.
FullScan(f) == ScanAll(f, content[f], Len(content[f]))

Count(seq, x) == Cardinality({j \in DOMAIN seq : seq[j] = x})

RecordsOf(seq) == {seq[j] : j \in DOMAIN seq}

\* C1: when main returns, the flat list is exactly the union of the record
\* lists of all candidate files: every record of every file occurs once,
\* and nothing else occurs.
AggregateComplete ==
    mainpc = "returned" =>
        /\ \A f \in Files :
               \A x \in RecordsOf(FullScan(f)) : Count(all_results_flat, x) = 1
        /\ \A j \in DOMAIN all_results_flat :
               \E f \in Files : all_results_flat[j] \in RecordsOf(FullScan(f))

\* C2: at most BatchSize scans are started and not yet finished.
ConcurrencyCeiling ==
    Cardinality({f \in Files : InFlight(f)}) <= BatchSize

\* C3: a call whose first attempt failed with resource exhaustion and
\* whose retry succeeded returns the list of a scan that succeeded at once.
RetryEquivalence ==
    \A f \in Files :
        (pc[f] = "returned" /\ attempt[f] = 2) => results[f] = FullScan(f)

\* C4: a call returns either the complete list of the file, or, when the
\* file was skipped for a decode or permission failure, no record at all.
ScanAtomicity ==
    \A f \in Files :
        pc[f] = "returned" =>
            \/ results[f] = FullScan(f)
            \/ /\ failure[f][1] \in {"UnicodeDecodeError", "PermissionError"}
               /\ results[f] = <<>>

\* C5: the run aborts only if some file hit resource exhaustion in both
\* attempts (a decode or permission failure of any attempt never aborts
\* it), and a run with such a file does not return.
ErrorContainment ==
    /\ mainpc \in {"aborted", "closing", "closed"} =>
           \E f \in Files : failure[f] = <<"OSError", "OSError">>
    /\ mainpc = "returned" =>
           \A f \in Files : failure[f] # <<"OSError", "OSError">>

\* C6: a file is attempted at most twice; the second attempt starts only
\* out of the backoff that follows a resource exhaustion of the first; a
\* first attempt that failed with a decode or permission failure is the
\* last one.
RetryPolicy ==
    [][\A f \in Files :
          /\ attempt'[f] <= 2
          /\ attempt'[f] > 1 =>
                 /\ failure[f][1] = "OSError"
                 /\ attempt[f] = 1 => pc[f] = "sleep"
          /\ failure[f][1] \in {"UnicodeDecodeError", "PermissionError"} =>
                 /\ attempt'[f] = 1
                 /\ pc'[f] = "returned"]_vars

\* C6 witness: one file was retried after a resource exhaustion and
\* returned, another was skipped on a decode failure without a retry.
RetryPolicyWitness ==
    \E f, g \in Files :
        /\ attempt[f] = 2 /\ pc[f] = "returned" /\ failure[f][1] = "OSError"
        /\ attempt[g] = 1 /\ pc[g] = "returned"
        /\ failure[g][1] = "UnicodeDecodeError"

\* C7: a scan of chunk k+1 has started only if every scan of chunk k has
\* finished.
BatchBarrier ==
    \A k \in 0..(Chunks - 2) :
        (\E g \in TaskChunk(k + 1) : pc[g] # "created") =>
            \A f \in TaskChunk(k) : Finished(f)

\* C7 witness: a scan of the second chunk is reading its file.
BatchBarrierWitness ==
    /\ Chunks >= 2
    /\ \E g \in TaskChunk(1) : pc[g] = "read" /\ line_num[g] >= 1

\* C8 as stated: in a returned list the line numbers increase strictly
\* from each record to the next.
StrictlyIncreasingLines ==
    \A f \in Files :
        pc[f] = "returned" =>
            \A j \in 1..(Len(results[f]) - 1) :
                results[f][j].line < results[f][j + 1].line

\* C8 amended: among the records one attempt appended, line numbers never
\* decrease from a record to the next, and two neighbours with the same
\* line number are the matches of two different rules, in rule order.
LinesOrderedPerAttempt ==
    \A f \in Files :
        \A j \in 1..(Len(results[f]) - 1) :
            j # retry_at[f] =>
                /\ results[f][j].line <= results[f][j + 1].line
                /\ results[f][j].line = results[f][j + 1].line =>
                       results[f][j].secret < results[f][j + 1].secret

\* C8 witness: a returned list with two records of one line followed by a
\* record of a later line.
LinesOrderedWitness ==
    \E f \in Files :
        /\ pc[f] = "returned"
        /\ Len(results[f]) >= 3
        /\ results[f][1].line = results[f][2].line
        /\ results[f][2].line < results[f][3].line

\* C9 as stated: no scan is ever cancelled.
NoSiblingCancelled ==
    \A f \in Files : pc[f] # "cancelled"

\* The next step of the call for g when its I/O operation succeeds.
Advance(g) == OpenOk(g) \/ ReadLine(g) \/ ReadEnd(g) \/ CloseOk(g) \/ ExitOk(g)

\* The step leaves the call for g as it is.
Untouched(g) ==
    /\ pc'[g] = pc[g]
    /\ cancel_requested'[g] = cancel_requested[g]
    /\ pending'[g] = pending[g]
    /\ attempt'[g] = attempt[g]
    /\ line_num'[g] = line_num[g]
    /\ results'[g] = results[g]
    /\ retry_at'[g] = retry_at[g]
    /\ failure'[g] = failure[g]

\* C9 amended: the step in which a scan fails with a hard error and the
\* step in which main ends with that error change no other scan; after
\* main has ended, and until asyncio.run starts closing the event loop,
\* every scan in flight can take its next step whenever the loop is not
\* blocked by a backoff; the step in which asyncio.run starts closing the
\* loop requests the cancellation of exactly the scans in flight, and no
\* other step requests one; a CancelledError is thrown only into a scan
\* whose cancellation is requested, and a scan ends cancelled only while
\* the loop is closing, on the request or with that CancelledError.
CancelledOnlyByClose ==
    /\ [](\A g \in Files :
             (mainpc = "aborted" /\ LoopFree /\ pc[g] \in {"open", "read", "close", "exit"})
                 => ENABLED Advance(g))
    /\ [][\A f \in Files :
             /\ (pc[f] # "raised" /\ pc'[f] = "raised") =>
                    \A g \in Files \ {f} : Untouched(g)
             /\ (mainpc = "gather" /\ mainpc' = "aborted") => Untouched(f)
             /\ (mainpc = "aborted" /\ mainpc' = "closing") =>
                    cancel_requested'[f] = InFlight(f) /\ pc'[f] = pc[f]
             /\ (~cancel_requested[f] /\ cancel_requested'[f]) =>
                    (mainpc = "aborted" /\ mainpc' = "closing")
             /\ (pending[f] # "CancelledError" /\ pending'[f] = "CancelledError") =>
                    cancel_requested[f]
             /\ (pc[f] # "cancelled" /\ pc'[f] = "cancelled") =>
                    /\ mainpc = "closing"
                    /\ cancel_requested[f] \/ pending[f] = "CancelledError"]_vars

\* C9 witness: one scan of the chunk failed with a hard error, main ended
\* and asyncio.run is closing the loop; two siblings were still in flight
\* when the cancellation was requested: one has ended cancelled, into the
\* other, which had read a line, the CancelledError was thrown and the
\* close of its file is awaited.
CancelledOnlyByCloseWitness ==
    /\ mainpc = "closing"
    /\ \E f, g, h \in TaskChunk(i) :
           /\ pc[f] = "raised"
           /\ pc[g] = "exit" /\ pending[g] = "CancelledError" /\ line_num[g] >= 1
           /\ pc[h] = "cancelled"

\* path `p` lies beneath directory `d`.
Beneath(p, d) == Len(p) > Len(d) /\ SubSeq(p, 1, Len(d)) = d

\* C10: when the rules match a directory of the tree, no regular file
\* beneath that directory is in the output of get_files_to_scan.
DirectoryExclusion ==
    mainpc = "enumerated" =>
        \A d \in entries :
            (~d.is_file /\ should_ignore(d.path, ignored_patterns)) =>
                \A p \in files_to_scan : ~Beneath(p, d.path)

\* Rule r, taken alone, matches the path: r holds a separator and the path
\* glob-matches r or lies under r, or r holds none and the last component
\* of the path glob-matches r or contains the text of r.
RuleMatches(path, r) ==
    IF HasSlash(r)
    THEN PathMatch(path, r) \/ IsRelativeTo(path, r)
    ELSE FnMatch(Name(path), r) \/ IsSubstring(r, Name(path))

MatchedBySomeRule(path, patterns) ==
    \E k \in DOMAIN patterns : RuleMatches(path, patterns[k])

\* C11: the output of get_files_to_scan is exactly the set of the regular
\* files of the tree that no rule matches: each of them is present, every
\* regular file some rule matches is absent, and no directory, symbolic
\* link or special file is yielded.
EnumeratorOutputSet ==
    mainpc = "enumerated" =>
        /\ \A e \in entries :
               e.path \in files_to_scan <=>
                   (e.kind = "file" /\ ~MatchedBySomeRule(e.path, ignored_patterns))
        /\ files_to_scan \subseteq {e.path : e \in entries}

\* The text of rule r has no wildcard.
NonGlob(r) == \A k \in DOMAIN r : r[k] \notin {"*", "?"}

\* C12 as stated: an entry whose name is a substring of some non-glob rule
\* is ignored, so get_files_to_scan does not yield it.
NameInsideRuleIgnored ==
    mainpc = "enumerated" =>
        \A e \in entries : \A k \in DOMAIN ignored_patterns :
            (NonGlob(ignored_patterns[k]) /\ IsSubstring(Name(e.path), ignored_patterns[k]))
                => /\ should_ignore(e.path, ignored_patterns)
                   /\ e.path \notin files_to_scan

\* C12 amended: an entry whose name contains the text of some non-glob
\* rule is ignored, and if it is a regular file it is not in the output of
\* get_files_to_scan.
RuleInsideNameIgnored ==
    \A e \in entries : \A k \in DOMAIN ignored_patterns :
        (NonGlob(ignored_patterns[k]) /\ IsSubstring(ignored_patterns[k], Name(e.path)))
            => /\ should_ignore(e.path, ignored_patterns)
               /\ mainpc = "enumerated" => e.path \notin files_to_scan

\* C12 witness: an enumeration left out a file whose name contains a
\* non-glob rule without being equal to it, the rule list holding no other
\* rule that matches the file.
RuleInsideNameWitness ==
    /\ mainpc = "enumerated"
    /\ \E e \in entries : \E k \in DOMAIN ignored_patterns :
           /\ e.is_file
           /\ NonGlob(ignored_patterns[k])
           /\ IsSubstring(ignored_patterns[k], Name(e.path))
           /\ ignored_patterns[k] # Name(e.path)
           /\ \A j \in DOMAIN ignored_patterns :
                  j # k => ~RuleMatches(e.path, ignored_patterns[j])
           /\ e.path \notin files_to_scan

\* The rule lists that hold the rules of `patterns` in another order.
Reorderings(patterns) ==
    {[k \in DOMAIN patterns |-> patterns[b[k]]] :
        b \in {c \in [DOMAIN patterns -> DOMAIN patterns] :
                  \A x, y \in DOMAIN patterns : c[x] = c[y] => x = y}}

\* C13: should_ignore is true of a path exactly when some rule of the list
\* matches the path on its own, and gives the same answer for every order
\* of the rule list.
IgnoreIsDisjunction ==
    \A e \in entries :
        /\ should_ignore(e.path, ignored_patterns)
               <=> MatchedBySomeRule(e.path, ignored_patterns)
        /\ \A q \in Reorderings(ignored_patterns) :
               should_ignore(e.path, q) = should_ignore(e.path, ignored_patterns)

\* C13 witness: an enumeration under a list of two rules left out a file
\* that only the last rule matches.
IgnoreIsDisjunctionWitness ==
    /\ mainpc = "enumerated"
    /\ Len(ignored_patterns) >= 2
    /\ \E e \in entries :
           /\ e.is_file /\ e.path \notin files_to_scan
           /\ RuleMatches(e.path, ignored_patterns[Len(ignored_patterns)])
           /\ \A k \in 1..(Len(ignored_patterns) - 1) :
                  ~RuleMatches(e.path, ignored_patterns[k])

\* The call for f returned from its first attempt, which met no failure.
SucceededAtOnce(f) ==
    pc[f] = "returned" /\ attempt[f] = 1 /\ failure[f][1] = "none"

\* C14: the list of a scan that succeeds on the first attempt holds exactly
\* one record for each pair of a line and a rule that matches it, with the
\* number of the line counted from 1, and no other record.
OneRecordPerMatch ==
    \A f \in Files :
        SucceededAtOnce(f) =>
            /\ \A ln \in 1..Len(content[f]) : \A r \in Rules :
                   Count(results[f], [secret |-> r, file |-> f, line |-> ln])
                       = IF Search(r, content[f][ln]) THEN 1 ELSE 0
            /\ \A j \in DOMAIN results[f] :
                   /\ results[f][j].file = f
                   /\ results[f][j].secret \in Rules
                   /\ results[f][j].line \in 1..Len(content[f])

\* C14 witness: a scan succeeded at once on a file whose first line two
\* rules match and whose second line one rule matches: two records carry
\* line number 1, one carries 2.
OneRecordPerMatchWitness ==
    \E f \in Files :
        /\ SucceededAtOnce(f)
        /\ Len(content[f]) >= 2
        /\ Cardinality(content[f][1]) >= 2
        /\ Cardinality(content[f][2]) = 1
        /\ Cardinality({j \in DOMAIN results[f] : results[f][j].line = 1}) >= 2
        /\ Cardinality({j \in DOMAIN results[f] : results[f][j].line = 2}) = 1

\* The run is over: main returned the aggregate list, or it was left by
\* an exception and asyncio.run closed the event loop.
Terminated == mainpc \in {"returned", "closed"}

\* C15: every run ends, by returning the aggregate list or by aborting,
\* and no file is ever attempted more than twice.
Termination ==
    /\ <>Terminated
    /\ [](\A f \in Files : attempt[f] <= 2)

\* C15 witness: a run of two chunks returned after a file had been retried.
TerminationWitness ==
    /\ mainpc = "returned"
    /\ Chunks >= 2
    /\ \E f \in Files : attempt[f] = 2 /\ pc[f] = "returned"

\* C16: while a scan waits out its backoff, every other scan in flight can
\* take its next step (open its file, read a line, finish).
NonStallingBackoff ==
    \A f, g \in Files :
        (f # g /\ pc[f] = "sleep" /\ pc[g] \in {"open", "read"}) =>
            ENABLED (OpenOk(g) \/ ReadLine(g) \/ ReadEnd(g))

====
